---- MODULE Spec2Model ----
(***************************************************************************)
(* A model of iss_tracker.py: the global dictionary `data` that holds the  *)
(* parsed ISS trajectory document, the route handlers that read it        *)
(* (/epochs, /epochs/<epoch>, /epochs/<epoch>/speed,                       *)
(* /epochs/<epoch>/location, /now) and the two that write it               *)
(* (/delete-data, /post-data).                                             *)
(*                                                                         *)
(* Texts (query parameters, EPOCH strings) are sequences of one-character  *)
(* strings, so that Python's slicing and int()/float() parsing are         *)
(* computed, not assumed.  Angles are carried in quarter degrees, which    *)
(* makes mins/60*(360/24) = mins/4 degrees exact in integer arithmetic.    *)
(* Positions are restricted to vectors on a coordinate axis, for which     *)
(* math.atan2 and math.sqrt are exact.                                     *)
(***************************************************************************)
EXTENDS Integers, Sequences, FiniteSets, TLC

VARIABLES data, feed, resp, q, held, sawEmpty

vars == <<data, feed, resp, q, held, sawEmpty>>

\* Longest series the feed delivers.
MaxLen == 3

MEAN_EARTH_RADIUS == 6371

----------------------------------------------------------------------------
(* Python primitives *)

Abs(n) == IF n < 0 THEN -n ELSE n

Min(a, b) == IF a < b THEN a ELSE b

Max(a, b) == IF a < b THEN b ELSE a

Digits == <<"0", "1", "2", "3", "4", "5", "6", "7", "8", "9">>

IsDigit(c) == \E d \in 1..10 : Digits[d] = c

DigitVal(c) == (CHOOSE d \in 1..10 : Digits[d] = c) - 1

RECURSIVE DigitsVal(_)
\* The value of a non-empty text of decimal digits.
DigitsVal(s) ==
    IF Len(s) = 0 THEN 0
    ELSE 10 * DigitsVal(SubSeq(s, 1, Len(s) - 1)) + DigitVal(s[Len(s)])

AllDigits(s) == Len(s) > 0 /\ \A k \in 1..Len(s) : IsDigit(s[k])

\* int(text) succeeds: an optional sign followed by at least one digit.
IntParses(s) ==
    /\ Len(s) > 0
    /\ IF s[1] \in {"-", "+"} THEN AllDigits(Tail(s)) ELSE AllDigits(s)

\* int(text), for a text on which it succeeds.
IntOf(s) ==
    IF s[1] = "-" THEN 0 - DigitsVal(Tail(s))
    ELSE IF s[1] = "+" THEN DigitsVal(Tail(s))
    ELSE DigitsVal(s)

\* Python's normalisation of a slice bound against a sequence of length n.
Clamp(i, n) == IF i < 0 THEN Max(i + n, 0) ELSE Min(i, n)

\* s[lo:hi]
PySlice(s, lo, hi) == SubSeq(s, Clamp(lo, Len(s)) + 1, Clamp(hi, Len(s)))

\* s[lo:]
PySliceFrom(s, lo) == SubSeq(s, Clamp(lo, Len(s)) + 1, Len(s))

\* s[:hi]
PySliceTo(s, hi) == SubSeq(s, 1, Clamp(hi, Len(s)))

RECURSIVE SqrtIn(_, _, _)
\* The root of n in lo..hi by bisection (n is a perfect square here).
SqrtIn(n, lo, hi) ==
    IF lo >= hi THEN lo
    ELSE LET mid == (lo + hi + 1) \div 2
         IN  IF mid * mid <= n THEN SqrtIn(n, mid, hi) ELSE SqrtIn(n, lo, mid - 1)

\* math.sqrt on perfect squares.
Sqrt(n) == SqrtIn(n, 0, 46340)

\* math.degrees(math.atan2(b, a)) where it is exact: a point on an axis.
Atan2Deg(b, a) ==
    CASE b = 0 /\ a >= 0 -> 0
      [] b = 0 /\ a < 0  -> 180
      [] b > 0 /\ a = 0  -> 90
      [] b < 0 /\ a = 0  -> -90

----------------------------------------------------------------------------
(* The feed: EPOCH texts and state vectors *)

Fmt(n, w) == [k \in 1..w |-> Digits[((n \div (10 ^ (w - k))) % 10) + 1]]

\* 'YYYY-DDDTHH:MM:SS.fffZ'
EpochText(y, doy, hh, mm, ss, ms) ==
    Fmt(y, 4) \o <<"-">> \o Fmt(doy, 3) \o <<"T">> \o Fmt(hh, 2) \o <<":">>
      \o Fmt(mm, 2) \o <<":">> \o Fmt(ss, 2) \o <<".">> \o Fmt(ms, 3) \o <<"Z">>

StateVector(e, p, v) ==
    [EPOCH |-> e, X |-> p[1], Y |-> p[2], Z |-> p[3],
     X_DOT |-> v[1], Y_DOT |-> v[2], Z_DOT |-> v[3]]

\* The state vectors the feed is built from: SampleB and SampleC fall in the
\* same second; the longitude of SampleC exceeds 180 degrees before the remap
\* and that of SampleD falls below -180.
SampleA == StateVector(EpochText(2023, 50, 12, 0, 0, 0),   <<7000, 0, 0>>,  <<1, 0, 0>>)

SampleB == StateVector(EpochText(2023, 50, 12, 4, 0, 0),   <<0, 0, 6900>>,  <<3, 4, 0>>)

SampleC == StateVector(EpochText(2023, 50, 12, 4, 0, 500), <<-7000, 0, 0>>, <<0, 0, 0>>)

SampleD == StateVector(EpochText(2023, 50, 23, 0, 0, 0),   <<0, -6800, 0>>, <<0, 6, 8>>)

Samples == {SampleA, SampleB, SampleC, SampleD}

\* Lists of at least two state vectors (xmltodict yields a list from two
\* <stateVector> elements on), no vector repeated, in any order.
Series ==
    { s \in UNION { [1..n -> Samples] : n \in 2..MaxLen } :
        \A i, j \in 1..Len(s) : i # j => s[i] # s[j] }

Epochs == { s.EPOCH : s \in Samples }

\* The empty dictionary, and the parsed document.
EmptyData == [loaded |-> FALSE, stateVector |-> <<>>]

\* bool(data)
NonEmpty(d) == d.loaded

----------------------------------------------------------------------------
(* Python values of the query parameters: the int default or a text *)

IntVal(n) == [isStr |-> FALSE, n |-> n, s |-> <<>>]

Text(s) == [isStr |-> TRUE, n |-> 0, s |-> s]

\* request.args.get(name, 0) when the parameter is not in the query string
Absent == IntVal(0)

\* `if v:`
Truthy(v) == IF v.isStr THEN v.s # <<>> ELSE v.n # 0

\* `v != 0`
NotZero(v) == v.isStr \/ v.n # 0

----------------------------------------------------------------------------
(* Outcomes of the handlers *)

DataCleared == [kind |-> "EmptyStore", text |-> "Data has been cleared."]

BadInput(name) == [kind |-> "InvalidParameter", param |-> name, status |-> 400]

\* An exception no handler catches: Flask answers 500.
Unhandled(exc) == [kind |-> "Unhandled", exception |-> exc, status |-> 500]

EpochList(l) == [kind |-> "Epochs", epochs |-> l]

NotFound(epoch) == [kind |-> "NotFound", epoch |-> epoch]

----------------------------------------------------------------------------
(* /epochs *)

\* selectEpochs with a slip: the upper bound of the slice forgets the offset.
selectEpochsUpToLimit(epochs, offset, limit) ==
    IF NotZero(offset) /\ NotZero(limit)
    THEN IF offset.isStr \/ limit.isStr THEN Unhandled("TypeError")
         ELSE EpochList(PySlice(epochs, offset.n, limit.n))
    ELSE IF ~NotZero(offset) /\ NotZero(limit)
    THEN IF limit.isStr THEN Unhandled("TypeError")
         ELSE EpochList(PySliceTo(epochs, offset.n + limit.n))
    ELSE IF NotZero(offset) /\ ~NotZero(limit)
    THEN IF offset.isStr THEN Unhandled("TypeError")
         ELSE EpochList(PySliceFrom(epochs, offset.n))
    ELSE EpochList(epochs)

\* The four slicing cases; a text that reaches a slice bound is a TypeError.
selectEpochs(epochs, offset, limit) ==
    IF NotZero(offset) /\ NotZero(limit)
    THEN IF offset.isStr \/ limit.isStr THEN Unhandled("TypeError")
         ELSE EpochList(PySlice(epochs, offset.n, offset.n + limit.n))
    ELSE IF ~NotZero(offset) /\ NotZero(limit)
    THEN IF limit.isStr THEN Unhandled("TypeError")
         ELSE EpochList(PySliceTo(epochs, offset.n + limit.n))
    ELSE IF NotZero(offset) /\ ~NotZero(limit)
    THEN IF offset.isStr THEN Unhandled("TypeError")
         ELSE EpochList(PySliceFrom(epochs, offset.n))
    ELSE EpochList(epochs)

\* `if v: try: v = int(v) except ValueError: ...` fails
FailsInt(v) == Truthy(v) /\ ~IntParses(v.s)

\* the value of v after `if v: v = int(v)`
AfterInt(v) == IF Truthy(v) THEN IntVal(IntOf(v.s)) ELSE v

epochsOf(sv) == [k \in 1..Len(sv) |-> sv[k].EPOCH]

\* showEpochs with a slip: the parameters are validated before the
\* emptiness check.
showEpochsValidatesFirst(d, offset, limit) ==
    IF FailsInt(offset) THEN BadInput("offset")
    ELSE IF FailsInt(limit) THEN BadInput("limit")
    ELSE IF ~NonEmpty(d) THEN DataCleared
    ELSE selectEpochs(epochsOf(d.stateVector), AfterInt(offset), AfterInt(limit))

showEpochs(d, offset, limit) ==
    IF ~NonEmpty(d) THEN DataCleared
    ELSE IF FailsInt(offset) THEN BadInput("offset")
    ELSE IF FailsInt(limit) THEN BadInput("limit")
    ELSE selectEpochs(epochsOf(d.stateVector), AfterInt(offset), AfterInt(limit))

----------------------------------------------------------------------------
(* /epochs/<epoch> and /epochs/<epoch>/speed *)

\* Indices of the vectors whose EPOCH equals the text.
Matches(sv, epoch) == { k \in 1..Len(sv) : sv[k].EPOCH = epoch }

\* The first one: what `for x in ...: if x['EPOCH'] == epoch: return` reaches.
FirstMatch(sv, epoch) == CHOOSE k \in Matches(sv, epoch) : \A j \in Matches(sv, epoch) : k <= j

showStateVectors(d, epoch) ==
    IF ~NonEmpty(d) THEN DataCleared
    ELSE IF Matches(d.stateVector, epoch) = {} THEN NotFound(epoch)
    ELSE [kind |-> "StateVector", x |-> d.stateVector[FirstMatch(d.stateVector, epoch)]]

speedOf(x) == Sqrt(x.X_DOT * x.X_DOT + x.Y_DOT * x.Y_DOT + x.Z_DOT * x.Z_DOT)

showSpeed(d, epoch) ==
    IF ~NonEmpty(d) THEN DataCleared
    ELSE IF Matches(d.stateVector, epoch) = {} THEN NotFound(epoch)
    ELSE [kind |-> "Speed", speed |-> speedOf(d.stateVector[FirstMatch(d.stateVector, epoch)])]

----------------------------------------------------------------------------
(* The projection of getLocation and getNowLoc *)

\* d degrees, in quarter degrees
Q(d) == 4 * d

\* float(epoch[9:-11]) and float(epoch[12:-8])
hrsOf(epoch) == DigitsVal(PySlice(epoch, 9, -11))

minsOf(epoch) == DigitsVal(PySlice(epoch, 12, -8))

\* lon before the range test, in quarter degrees:
\* degrees(atan2(y, x)) - ((hrs-12)+(mins/60))*(360/24) + 24
rawLon(i, epoch) ==
    Q(Atan2Deg(i.Y, i.X)) - ((hrsOf(epoch) - 12) * 60 + minsOf(epoch)) + Q(24)

\* the range test and the remap
remapLon(lon) ==
    IF lon <= Q(180) /\ lon >= Q(-180) THEN lon ELSE Q(-180) + (lon - Q(180))

latOf(i) == Atan2Deg(i.Z, Sqrt(i.X * i.X + i.Y * i.Y))

altOf(i) == Sqrt(i.X * i.X + i.Y * i.Y + i.Z * i.Z) - MEAN_EARTH_RADIUS

\* Latitude (degrees), Longitude (quarter degrees), altitude (km) of vector i,
\* the hour and minute taken from the text `epoch`.
project(i, epoch) ==
    [Latitude |-> latOf(i), Longitude |-> remapLon(rawLon(i, epoch)), altitude |-> altOf(i)]

\* What geocoder.reverse does: a place, None, or an exception.
GeoOutcomes == {"place", "none", "error"}

\* the 'geo' text of the answer
geoText(g) == IF g = "none" THEN "Location may be over the ocean" ELSE "str(geoloc)"

getLocation(d, epoch, g) ==
    IF ~NonEmpty(d) THEN DataCleared
    ELSE IF Matches(d.stateVector, epoch) = {} THEN NotFound(epoch)
    ELSE IF g = "error" THEN Unhandled("GeocoderError")
    ELSE [kind |-> "Location",
          Location |-> project(d.stateVector[FirstMatch(d.stateVector, epoch)], epoch),
          geo |-> geoText(g)]

----------------------------------------------------------------------------
(* /now *)

\* Leap days from 1970 to the start of year y.
LeapDays(y) == ((y - 1969) \div 4) - ((y - 1901) \div 100) + ((y - 1601) \div 400)

\* time.mktime(time.strptime(epoch[:-5], '%Y-%jT%H:%M:%S')), the process
\* running in UTC: seconds since 1970.
EpochTime(epoch) ==
    LET t == PySliceTo(epoch, -5)
        Y == DigitsVal(PySlice(t, 0, 4))
        j == DigitsVal(PySlice(t, 5, 8))
        H == DigitsVal(PySlice(t, 9, 11))
        M == DigitsVal(PySlice(t, 12, 14))
        S == DigitsVal(PySlice(t, 15, 17))
    IN  ((((Y - 1970) * 365 + LeapDays(Y) + (j - 1)) * 24 + H) * 60 + M) * 60 + S

\* The values time.time() takes: instants of day 50 of 2023.
At(hh, mm, ss) == EpochTime(EpochText(2023, 50, hh, mm, ss, 0))

Instants == { At(12, 0, 0), At(12, 2, 0), At(12, 3, 0), At(23, 30, 0) }

\* closer with a slip: a later vector at the same distance replaces the
\* earlier one.
closerOrEqual(a, best) == best.inf \/ a <= best.smallest_diff

\* `abs(diff) < smallest_diff`, smallest_diff starting at float('inf')
closer(a, best) == best.inf \/ a < best.smallest_diff

RECURSIVE scanFrom(_, _, _, _)
\* The first loop from index k on; `best` holds the loop's variables.
scanFrom(state_vector, k, time_now, best) ==
    IF k > Len(state_vector) THEN best
    ELSE LET epoch == state_vector[k].EPOCH
             epoch_time == EpochTime(epoch)
             diff == epoch_time - time_now
             hit == closer(Abs(diff), best)
         IN  scanFrom(state_vector, k + 1, time_now,
                      [inf |-> best.inf /\ ~hit,
                       smallest_diff |-> IF hit THEN Abs(diff) ELSE best.smallest_diff,
                       now_epoch |-> IF hit THEN epoch ELSE best.now_epoch,
                       epoch |-> epoch,
                       epoch_time |-> epoch_time])

\* The variables the first loop leaves behind.
scan(state_vector, time_now) ==
    scanFrom(state_vector, 1, time_now,
             [inf |-> TRUE, smallest_diff |-> 0, now_epoch |-> <<>>,
              epoch |-> <<>>, epoch_time |-> 0])

\* The second loop, over the list read at its head, with the variables the
\* first loop left.
nowLookup(sv, loc, g) ==
    IF Matches(sv, loc.now_epoch) = {} THEN NotFound(loc.epoch)
    ELSE IF g = "error" THEN Unhandled("GeocoderError")
    ELSE LET i == sv[FirstMatch(sv, loc.now_epoch)]
         IN  [kind |-> "Now",
              Closest_epoch |-> loc.now_epoch,
              epochTime |-> loc.epoch_time,
              Seconds_from_now |-> loc.smallest_diff,
              Location |-> project(i, loc.epoch),
              geo |-> geoText(g),
              Speed |-> speedOf(i)]

getNowLoc(d, time_now, g) ==
    IF ~NonEmpty(d) THEN DataCleared
    ELSE nowLookup(d.stateVector, scan(d.stateVector, time_now), g)

----------------------------------------------------------------------------
(* /delete-data and /post-data *)

\* data.clear()
deleteData(d) == EmptyData

\* getData with a slip: the fetched vectors are appended to those held.
getDataMerges(d, fetched) ==
    [loaded |-> TRUE, stateVector |-> d.stateVector \o fetched]

\* data = xmltodict.parse(response.text)
getData(d, fetched) == [loaded |-> TRUE, stateVector |-> fetched]

----------------------------------------------------------------------------
(* Requests, one handler per step *)

\* The texts a query parameter takes, and its absence.
ParamValues ==
    { Absent, Text(<<>>), Text(<<"0">>), Text(<<"1">>), Text(<<"2">>),
      Text(<<"5">>), Text(<<"-", "1">>), Text(<<"a">>) }

Queries == {"epochs", "epoch", "speed", "location", "now"}

\* The last request and its answer.
Call(op, offset, limit, epoch, time_now, g, out) ==
    [op |-> op, offset |-> offset, limit |-> limit, epoch |-> epoch,
     time_now |-> time_now, geo |-> g, out |-> out]

Idle == [pc |-> "idle", time_now |-> 0, state_vector |-> <<>>,
         loc |-> scan(<<>>, 0), geo |-> "place", out |-> [kind |-> "None"]]

Init ==
    /\ feed \in Series
    /\ data = getData(EmptyData, feed)
    /\ resp = Call("start", Absent, Absent, <<>>, 0, "place", [kind |-> "Reloaded"])
    /\ q = Idle
    /\ held = {}
    /\ sawEmpty = FALSE

ShowEpochs ==
    \E offset, limit \in ParamValues :
        /\ resp' = Call("epochs", offset, limit, <<>>, 0, "place",
                        showEpochs(data, offset, limit))
        /\ UNCHANGED <<data, feed, q, held, sawEmpty>>

ShowStateVectors ==
    \E epoch \in Epochs :
        /\ resp' = Call("epoch", Absent, Absent, epoch, 0, "place",
                        showStateVectors(data, epoch))
        /\ UNCHANGED <<data, feed, q, held, sawEmpty>>

ShowSpeed ==
    \E epoch \in Epochs :
        /\ resp' = Call("speed", Absent, Absent, epoch, 0, "place",
                        showSpeed(data, epoch))
        /\ UNCHANGED <<data, feed, q, held, sawEmpty>>

GetLocation ==
    \E epoch \in Epochs, g \in GeoOutcomes :
        /\ resp' = Call("location", Absent, Absent, epoch, 0, g,
                        getLocation(data, epoch, g))
        /\ UNCHANGED <<data, feed, q, held, sawEmpty>>

GetNowLoc ==
    \E time_now \in Instants, g \in GeoOutcomes :
        /\ resp' = Call("now", Absent, Absent, <<>>, time_now, g,
                        getNowLoc(data, time_now, g))
        /\ UNCHANGED <<data, feed, q, held, sawEmpty>>

DeleteData ==
    /\ data' = deleteData(data)
    /\ resp' = Call("delete-data", Absent, Absent, <<>>, 0, "place", [kind |-> "Cleared"])
    /\ UNCHANGED <<feed, q, held, sawEmpty>>

PostData ==
    \E fetched \in Series :
        /\ feed' = fetched
        /\ data' = getData(data, fetched)
        /\ resp' = Call("post-data", Absent, Absent, <<>>, 0, "place", [kind |-> "Reloaded"])
        /\ UNCHANGED <<q, held, sawEmpty>>

Next ==
    \/ ShowEpochs
    \/ ShowStateVectors
    \/ ShowSpeed
    \/ GetLocation
    \/ GetNowLoc
    \/ DeleteData
    \/ PostData

Spec == Init /\ [][Next]_vars

----------------------------------------------------------------------------
(* Requests served by concurrent threads: /now runs line by line while     *)
(* /delete-data and /post-data run between its lines.  Nothing in the      *)
(* program locks `data`.                                                   *)

\* The series the feed delivers while a /now request is in flight.
ConcFeeds == { <<SampleA, SampleB>>, <<SampleB, SampleA>>, <<SampleC, SampleD>> }

InitConc ==
    /\ feed \in ConcFeeds
    /\ data = getData(EmptyData, feed)
    /\ resp = Call("start", Absent, Absent, <<>>, 0, "place", [kind |-> "Reloaded"])
    /\ q = Idle
    /\ held = {}
    /\ sawEmpty = FALSE

\* A /now request arrives; held and sawEmpty record what the store holds
\* from here to the request's end.
NowStart ==
    /\ q.pc = "idle"
    /\ q' = [q EXCEPT !.pc = "check"]
    /\ held' = IF NonEmpty(data) THEN {data.stateVector} ELSE {}
    /\ sawEmpty' = ~NonEmpty(data)
    /\ UNCHANGED <<data, feed, resp>>

\* `if not bool(data): return ...`, then `time_now = time.time()`
NowCheck ==
    /\ q.pc = "check"
    /\ IF ~NonEmpty(data)
       THEN q' = [q EXCEPT !.pc = "done", !.out = DataCleared]
       ELSE \E time_now \in Instants :
                q' = [q EXCEPT !.pc = "read1", !.time_now = time_now]
    /\ UNCHANGED <<data, feed, resp, held, sawEmpty>>

\* `state_vector = data['ndm']['oem']['body']['segment']['data']['stateVector']`
NowRead ==
    /\ q.pc = "read1"
    /\ IF ~NonEmpty(data)
       THEN q' = [q EXCEPT !.pc = "done", !.out = Unhandled("KeyError")]
       ELSE q' = [q EXCEPT !.pc = "scan", !.state_vector = data.stateVector]
    /\ UNCHANGED <<data, feed, resp, held, sawEmpty>>

\* the first loop
NowScan ==
    /\ q.pc = "scan"
    /\ q' = [q EXCEPT !.pc = "read2", !.loc = scan(q.state_vector, q.time_now)]
    /\ UNCHANGED <<data, feed, resp, held, sawEmpty>>

\* the second loop, which reads `data` again at its head
NowLookup ==
    /\ q.pc = "read2"
    /\ \E g \in GeoOutcomes :
           IF ~NonEmpty(data)
           THEN q' = [q EXCEPT !.pc = "done", !.geo = g, !.out = Unhandled("KeyError")]
           ELSE q' = [q EXCEPT !.pc = "done", !.geo = g,
                                !.out = nowLookup(data.stateVector, q.loc, g)]
    /\ UNCHANGED <<data, feed, resp, held, sawEmpty>>

\* the answer is sent
NowReturn ==
    /\ q.pc = "done"
    /\ q' = Idle
    /\ held' = {}
    /\ sawEmpty' = FALSE
    /\ UNCHANGED <<data, feed, resp>>

InFlight == q.pc \in {"check", "read1", "scan", "read2"}

ConcDeleteData ==
    /\ data' = deleteData(data)
    /\ sawEmpty' = (sawEmpty \/ InFlight)
    /\ UNCHANGED <<feed, resp, q, held>>

ConcPostData ==
    \E fetched \in ConcFeeds :
        /\ feed' = fetched
        /\ data' = getData(data, fetched)
        /\ held' = IF InFlight THEN held \cup {fetched} ELSE held
        /\ UNCHANGED <<resp, q, sawEmpty>>

NextConc ==
    \/ NowStart
    \/ NowCheck
    \/ NowRead
    \/ NowScan
    \/ NowLookup
    \/ NowReturn
    \/ ConcDeleteData
    \/ ConcPostData

SpecConc == InitConc /\ [][NextConc]_vars

----------------------------------------------------------------------------
(* The claims *)

\* A parameter that is a non-negative integer, absent counting as 0.
IsNatParam(v) == v = Absent \/ (v.isStr /\ AllDigits(v.s))

NatOf(v) == IF v.isStr THEN DigitsVal(v.s) ELSE 0

\* A parameter that is given and is not a non-negative integer.
IsBadParam(v) == v.isStr /\ ~AllDigits(v.s)

\* C1: on a loaded store, /epochs with non-negative integers offset and limit
\* answers the EPOCHs at the indices i, offset <= i < min(n, offset+limit)
\* when limit > 0 and offset <= i < n when limit = 0, in series order; its
\* length is max(0, min(limit, n - offset)), or max(0, n - offset); an offset
\* beyond n gives the empty list.
C1_RangeSelection ==
    (resp.op = "epochs" /\ NonEmpty(data) /\ IsNatParam(resp.offset) /\ IsNatParam(resp.limit))
    => LET sv == data.stateVector
           n == Len(sv)
           offset == NatOf(resp.offset)
           limit == NatOf(resp.limit)
           hi == IF limit > 0 THEN Min(n, offset + limit) ELSE n
           want == IF limit > 0 THEN Max(0, Min(limit, n - offset)) ELSE Max(0, n - offset)
       IN  /\ resp.out.kind = "Epochs"
           /\ Len(resp.out.epochs) = want
           /\ want = Max(0, hi - offset)
           /\ \A k \in 1..want : resp.out.epochs[k] = sv[offset + k].EPOCH
           /\ (offset >= n => resp.out.epochs = <<>>)

\* C1's case: offset and limit both given, the window inside the series.
C1_Witness ==
    /\ resp.op = "epochs"
    /\ NonEmpty(data)
    /\ resp.offset = Text(<<"1">>)
    /\ resp.limit = Text(<<"1">>)
    /\ resp.out = EpochList(<<data.stateVector[2].EPOCH>>)

\* C2: on a loaded store, /epochs with an offset or a limit that is not a
\* non-negative integer ends in InvalidParameter naming such a parameter.
C2_InvalidParameter ==
    (resp.op = "epochs" /\ NonEmpty(data) /\ (IsBadParam(resp.offset) \/ IsBadParam(resp.limit)))
    => /\ resp.out.kind = "InvalidParameter"
       /\ \/ resp.out.param = "offset" /\ IsBadParam(resp.offset)
          \/ resp.out.param = "limit" /\ IsBadParam(resp.limit)

\* C3: every query answered while the store is empty (after a clear, before
\* the next reload), whatever its parameters, is the fixed 'Data has been
\* cleared' outcome; and a clear of an empty store leaves the store as it is.
C3_EmptyStore ==
    /\ []((~NonEmpty(data) /\ resp.op \in Queries) => resp.out = DataCleared)
    /\ [][(~NonEmpty(data) /\ resp'.op = "delete-data") => data' = data]_vars

\* C3's case: /epochs with a non-numeric offset on the cleared store.
C3_Witness ==
    /\ ~NonEmpty(data)
    /\ resp.op = "epochs"
    /\ resp.offset = Text(<<"a">>)
    /\ resp.out = DataCleared

\* |sampleTime - instant| of the k-th vector
Distance(sv, k, instant) == Abs(EpochTime(sv[k].EPOCH) - instant)

\* C4: on a loaded store, /now reports the EPOCH of a vector whose distance
\* to the instant is least over the whole series, the first such vector in
\* series order, and that least distance as Seconds_from_now.
C4_Nearest ==
    (resp.op = "now" /\ NonEmpty(data) /\ resp.geo # "error")
    => LET sv == data.stateVector
           t == resp.time_now
           first == CHOOSE k \in 1..Len(sv) :
                       /\ \A j \in 1..Len(sv) : Distance(sv, k, t) <= Distance(sv, j, t)
                       /\ \A j \in 1..(k - 1) : Distance(sv, j, t) > Distance(sv, k, t)
       IN  /\ resp.out.kind = "Now"
           /\ resp.out.Closest_epoch = sv[first].EPOCH
           /\ resp.out.Seconds_from_now = Distance(sv, first, t)

\* C4's case: two vectors at the same least distance, the earlier reported.
C4_Witness ==
    /\ resp.op = "now"
    /\ NonEmpty(data)
    /\ resp.out.kind = "Now"
    /\ \E i, j \in 1..Len(data.stateVector) :
          /\ i < j
          /\ data.stateVector[i].EPOCH = resp.out.Closest_epoch
          /\ Distance(data.stateVector, i, resp.time_now) = resp.out.Seconds_from_now
          /\ Distance(data.stateVector, j, resp.time_now) = resp.out.Seconds_from_now

\* C5: the epochTime that /now reports is the absolute time of the EPOCH it
\* reports as closest, so |epochTime - instant| = Seconds_from_now.
C5_EpochTimeOfMatch ==
    (resp.op = "now" /\ resp.out.kind = "Now")
    => /\ resp.out.epochTime = EpochTime(resp.out.Closest_epoch)
       /\ Abs(resp.out.epochTime - resp.time_now) = resp.out.Seconds_from_now

\* C6: the latitude, longitude and altitude that /now reports are those
\* that /epochs/<epoch>/location reports for the EPOCH /now reports as closest.
C6_NowLocationIsLocation ==
    (resp.op = "now" /\ resp.out.kind = "Now")
    => resp.out.Location = getLocation(data, resp.out.Closest_epoch, resp.geo).Location

\* The longitude before the remap behind the last answer.
RawLonOfAnswer ==
    IF resp.op = "location"
    THEN rawLon(data.stateVector[FirstMatch(data.stateVector, resp.epoch)], resp.epoch)
    ELSE rawLon(data.stateVector[FirstMatch(data.stateVector, resp.out.Closest_epoch)],
                scan(data.stateVector, resp.time_now).epoch)

\* C7: when the longitude before the remap lies within [-360, 360], the
\* longitude reported lies within [-180, 180].
C7_LongitudeRange ==
    (resp.out.kind \in {"Location", "Now"}
        /\ RawLonOfAnswer >= Q(-360) /\ RawLonOfAnswer <= Q(360))
    => (resp.out.Location.Longitude >= Q(-180) /\ resp.out.Location.Longitude <= Q(180))

\* C8: a finished /now request answers either 'Data has been cleared', the
\* store having been empty during the request, or what /now computes from
\* one series the store held during the request.
C8_OneSeries ==
    q.pc = "done"
    => \/ q.out = DataCleared /\ sawEmpty
       \/ \E s \in held : q.out = getNowLoc(getData(EmptyData, s), q.time_now, q.geo)

\* C9: when the geocoder returns nothing or fails, location (of an EPOCH in
\* the series) and /now still answer, with the fallback text and the numeric
\* fields they answer when the geocoder succeeds.
C9_GeocoderFallback ==
    (/\ NonEmpty(data)
     /\ resp.geo \in {"none", "error"}
     /\ \/ resp.op = "now"
        \/ resp.op = "location" /\ Matches(data.stateVector, resp.epoch) # {})
    => LET ok == IF resp.op = "now" THEN getNowLoc(data, resp.time_now, "place")
                 ELSE getLocation(data, resp.epoch, "place")
       IN  /\ resp.out.kind = ok.kind
           /\ resp.out.geo = "Location may be over the ocean"
           /\ resp.out.Location = ok.Location
           /\ (resp.op = "now" => resp.out.Speed = ok.Speed)

\* C10: on a store last written by a reload, /epochs without offset and limit
\* answers the EPOCHs of the series that reload fetched, in its order, and
\* nothing else.
C10_ReplaceThenList ==
    (resp.op = "epochs" /\ NonEmpty(data) /\ resp.offset = Absent /\ resp.limit = Absent)
    => resp.out = EpochList(epochsOf(feed))

\* C10's case: the full list of a reloaded series of the greatest length.
C10_Witness ==
    /\ resp.op = "epochs"
    /\ NonEmpty(data)
    /\ resp.offset = Absent
    /\ resp.limit = Absent
    /\ resp.out.kind = "Epochs"
    /\ Len(resp.out.epochs) = MaxLen
    /\ resp.out.epochs[1] = SampleD.EPOCH

====
